---- MODULE Spec2Model ----
(***************************************************************************)
(* Mortgage calculation engine of Rocket-LendPro: the browser-side library *)
(* (calculateMonthlyPayment, generateAmortizationSchedule, ...), the       *)
(* browser-side mortgageService copies of the same formulas, and the       *)
(* server-side resolvers of Query.cs.                                      *)
(*                                                                         *)
(* Numbers.  The code computes in IEEE-754 binary64 (JS number, C#         *)
(* double).  A number is modelled as such a value: a sign, a significand   *)
(* of 53 bits held in four limbs of 14 bits, and an exponent; every        *)
(* operation rounds its exact result to nearest, ties to even; NaN and     *)
(* the two infinities are values.  The exponent is unbounded (no overflow  *)
(* to Infinity, no subnormals) and the sign of zero is not kept.           *)
(* Math.pow is computed by repeated squaring, each product rounded.        *)
(* C# decimal values are carried in the same format.                       *)
(***************************************************************************)
EXTENDS Integers, Sequences, FiniteSets, TLC

(***************************************************************************)
(* Significands: naturals below 2^56 as <<a1, a2, a3, a4>>, least          *)
(* significant limb first, in base 2^14.                                   *)
(***************************************************************************)
LimbBits == 14
B == 2 ^ LimbBits
SigBits == 53
QBitsMax == 4 * LimbBits
Q0 == <<0, 0, 0, 0>>
Q1 == <<1, 0, 0, 0>>

QLess(a, b) ==
    IF a[4] # b[4] THEN a[4] < b[4]
    ELSE IF a[3] # b[3] THEN a[3] < b[3]
    ELSE IF a[2] # b[2] THEN a[2] < b[2]
    ELSE a[1] < b[1]

\* Carries (borrows, when negative) moved up from limb to limb; the top limb
\* keeps what is left
Carry3(a1, a2, t3, t4) == <<a1, a2, t3 % B, t4 + t3 \div B>>
Carry2(a1, t2, t3, t4) == Carry3(a1, t2 % B, t3 + t2 \div B, t4)
Carry1(t1, t2, t3, t4) == Carry2(t1 % B, t2 + t1 \div B, t3, t4)

QAdd(a, b) == Carry1(a[1] + b[1], a[2] + b[2], a[3] + b[3], a[4] + b[4])
\* a - b for a >= b
QSub(a, b) == Carry1(a[1] - b[1], a[2] - b[2], a[3] - b[3], a[4] - b[4])

\* floor(q / B^j) and floor(q / lo) for lo = 2^t, up = B / lo
ShrLimbs(q, j) ==
    IF j = 0 THEN q
    ELSE IF j = 1 THEN <<q[2], q[3], q[4], 0>>
    ELSE IF j = 2 THEN <<q[3], q[4], 0, 0>>
    ELSE <<q[4], 0, 0, 0>>
ShrBits(q, lo, up) ==
    <<q[1] \div lo + (q[2] % lo) * up, q[2] \div lo + (q[3] % lo) * up,
      q[3] \div lo + (q[4] % lo) * up, q[4] \div lo>>

\* floor(q / 2^k)
QShr(q, k) ==
    IF k >= QBitsMax THEN Q0
    ELSE ShrBits(ShrLimbs(q, k \div LimbBits), 2 ^ (k % LimbBits),
                 2 ^ (LimbBits - (k % LimbBits)))

\* q mod 2^k # 0
QLost(q, k) ==
    IF k >= QBitsMax THEN q # Q0
    ELSE \/ \E i \in 1..(k \div LimbBits) : q[i] # 0
         \/ q[k \div LimbBits + 1] % (2 ^ (k % LimbBits)) # 0

\* q * B^j and q * up for up = 2^t, lo = B / up; the product is below 2^56
ShlLimbs(q, j) ==
    IF j = 0 THEN q
    ELSE IF j = 1 THEN <<0, q[1], q[2], q[3]>>
    ELSE IF j = 2 THEN <<0, 0, q[1], q[2]>>
    ELSE <<0, 0, 0, q[1]>>
ShlBits(q, up, lo) ==
    <<(q[1] % lo) * up, (q[2] % lo) * up + q[1] \div lo,
      (q[3] % lo) * up + q[2] \div lo, (q[4] % lo) * up + q[3] \div lo>>

\* q * 2^k, which is below 2^56
QShl(q, k) ==
    ShlBits(ShlLimbs(q, k \div LimbBits), 2 ^ (k % LimbBits), 2 ^ (LimbBits - (k % LimbBits)))

\* Number of bits of a limb
RECURSIVE LimbLen(_)
LimbLen(n) == IF n = 0 THEN 0 ELSE 1 + LimbLen(n \div 2)

QLen(q) ==
    IF q[4] # 0 THEN 3 * LimbBits + LimbLen(q[4])
    ELSE IF q[3] # 0 THEN 2 * LimbBits + LimbLen(q[3])
    ELSE IF q[2] # 0 THEN LimbBits + LimbLen(q[2])
    ELSE LimbLen(q[1])

\* A natural below 2^31 as a significand, and back
QFromNat(n) == <<n % B, (n \div B) % B, n \div (B * B), 0>>
QToNat(q) == q[1] + q[2] * B + q[3] * B * B

(***************************************************************************)
(* Floating point                                                          *)
(***************************************************************************)
NaN == [k |-> "nan", s |-> 1, m |-> Q0, e |-> 0]
Inf(sg) == [k |-> "inf", s |-> sg, m |-> Q0, e |-> 0]
Zero == [k |-> "fin", s |-> 1, m |-> Q0, e |-> 0]
Fin(sg, q, ex) == [k |-> "fin", s |-> sg, m |-> q, e |-> ex]

IsZero(x) == x.k = "fin" /\ x.m = Q0

\* The rounded significand u may have reached 2^53
PackCarry(sg, u, ex) ==
    IF u[4] >= 2 ^ (SigBits - 3 * LimbBits) THEN Fin(sg, QShr(u, 1), ex + 1)
    ELSE Fin(sg, u, ex)

\* t the 53 leading bits, r the bits cut off (half: the weight of the first of
\* them); round to nearest, a tie to even
PackRound(sg, t, r, half, ex, sticky) ==
    PackCarry(sg,
              IF r > half \/ (r = half /\ (sticky \/ t[1] % 2 = 1)) THEN QAdd(t, Q1) ELSE t,
              ex)

PackLen(sg, q, ex, sticky, len) ==
    IF len = 0 THEN Zero
    ELSE IF len <= SigBits THEN Fin(sg, QShl(q, SigBits - len), ex - (SigBits - len))
    ELSE PackRound(sg, QShr(q, len - SigBits), q[1] % (2 ^ (len - SigBits)),
                   2 ^ (len - SigBits - 1), ex + (len - SigBits), sticky)

\* The number nearest to sg * (q + eps) * 2^ex, ties to even, where eps is in
\* (0,1) when sticky and 0 otherwise.  With sticky, q has more than 53 bits.
Pack(sg, q, ex, sticky) == PackLen(sg, q, ex, sticky, QLen(q))

\* An integer literal or integer-valued variable as a number.
FromInt(n) == Pack(IF n < 0 THEN -1 ELSE 1, QFromNat(IF n < 0 THEN -n ELSE n), 0, FALSE)

\* 1 = 2^52 * 2^-52, 12 = 3 * 2^51 * 2^-49, 100 = 25 * 2^48 * 2^-46
One == Fin(1, <<0, 0, 0, 1024>>, -52)
Twelve == Fin(1, <<0, 0, 0, 1536>>, -49)
Hundred == Fin(1, <<0, 0, 0, 1600>>, -46)

FNeg(x) ==
    IF x.k = "nan" \/ IsZero(x) THEN x ELSE [x EXCEPT !.s = -x.s]

\* |x| < |y| for finite non-zero x, y
MagLess(x, y) == x.e < y.e \/ (x.e = y.e /\ QLess(x.m, y.m))

\* a and b the significands aligned (b cut, lost saying that bits were cut off)
AddAligned(x, y, a, b, lost) ==
    Pack(x.s,
         IF x.s = y.s THEN QAdd(a, b) ELSE QSub(a, IF lost THEN QAdd(b, Q1) ELSE b),
         x.e - 2, lost)

\* x + y for finite non-zero x, y with |x| >= |y|: two guard bits and a sticky bit
AddMag(x, y) ==
    AddAligned(x, y, QShl(x.m, 2), QShr(QShl(y.m, 2), x.e - y.e),
               QLost(QShl(y.m, 2), x.e - y.e))

FAdd(x, y) ==
    IF x.k = "nan" \/ y.k = "nan" THEN NaN
    ELSE IF x.k = "inf"
         THEN IF y.k = "inf" /\ y.s # x.s THEN NaN ELSE x
    ELSE IF y.k = "inf" THEN y
    ELSE IF x.m = Q0 THEN y
    ELSE IF y.m = Q0 THEN x
    ELSE AddMag(IF MagLess(x, y) THEN y ELSE x, IF MagLess(x, y) THEN x ELSE y)

FSub(x, y) == FAdd(x, FNeg(y))

\* The limbs of a sequence of columns, least significant first, c carried in
RECURSIVE CarrySeq(_, _)
CarrySeq(cols, c) ==
    IF cols = <<>> THEN <<c>>
    ELSE <<(Head(cols) + c) % B>> \o CarrySeq(Tail(cols), (Head(cols) + c) \div B)

\* The eight limbs of a * b, by columns
MulLimbs(a, b) ==
    CarrySeq(<<a[1] * b[1],
               a[1] * b[2] + a[2] * b[1],
               a[1] * b[3] + a[2] * b[2] + a[3] * b[1],
               a[1] * b[4] + a[2] * b[3] + a[3] * b[2] + a[4] * b[1],
               a[2] * b[4] + a[3] * b[3] + a[4] * b[2],
               a[3] * b[4] + a[4] * b[3],
               a[4] * b[4]>>, 0)

\* p the limbs of the product: floor(p / 2^51) (2^51 = B^3 * lo, B = lo * up)
\* and whether bits were cut off
MulPack(sg, p, ex, lo, up) ==
    Pack(sg,
         <<p[4] \div lo + (p[5] % lo) * up, p[5] \div lo + (p[6] % lo) * up,
           p[6] \div lo + (p[7] % lo) * up, p[7] \div lo + p[8] * up>>,
         ex,
         p[1] # 0 \/ p[2] # 0 \/ p[3] # 0 \/ p[4] % lo # 0)

FMul(x, y) ==
    IF x.k = "nan" \/ y.k = "nan" THEN NaN
    ELSE IF x.k = "inf" \/ y.k = "inf"
         THEN IF IsZero(x) \/ IsZero(y) THEN NaN ELSE Inf(x.s * y.s)
    ELSE IF x.m = Q0 \/ y.m = Q0 THEN Zero
    ELSE MulPack(x.s * y.s, MulLimbs(x.m, y.m), x.e + y.e + 51, 2 ^ 9, 2 ^ 5)

\* n more quotient bits of r / d (r < d), most significant first: <<bits, r>>
RECURSIVE DivBits(_, _, _, _)
RECURSIVE DivStep(_, _, _, _)
DivStep(acc, r2, d, n) ==
    IF QLess(r2, d) THEN DivBits(acc * 2, r2, d, n - 1)
    ELSE DivBits(acc * 2 + 1, QSub(r2, d), d, n - 1)
DivBits(acc, r, d, n) ==
    IF n = 0 THEN <<acc, r>> ELSE DivStep(acc, QAdd(r, r), d, n)

\* k more quotient limbs, s being <<the limb before them, the remainder>>
RECURSIVE DivLimbs(_, _, _, _)
DivLimbs(qs, s, d, k) ==
    IF k = 0 THEN <<(<<s[1]>> \o qs), s[2] # Q0>>
    ELSE DivLimbs(<<s[1]>> \o qs, DivBits(0, s[2], d, LimbBits), d, k - 1)

\* floor(a * 2^55 / d) and whether the division left a remainder
QDivide(a, d) ==
    DivLimbs(<<>>,
             DivBits(IF QLess(a, d) THEN 0 ELSE 1, IF QLess(a, d) THEN a ELSE QSub(a, d),
                     d, LimbBits - 1),
             d, 3)

\* Division by one limb: ns the limbs still to divide, most significant first,
\* r the remainder so far
RECURSIVE ShortDiv(_, _, _, _)
ShortDiv(qs, ns, r, d4) ==
    IF ns = <<>> THEN <<qs, r # 0>>
    ELSE ShortDiv(<<(r * B + Head(ns)) \div d4>> \o qs, Tail(ns), (r * B + Head(ns)) % d4, d4)

\* The same when only the top limb of the divisor is not 0 (d = d4 * 2^42):
\* floor(a * 2^13 / d4), limb by limb
QDivideShort(a, d4) ==
    ShortDiv(<<>>,
             <<a[3] \div 2 + (a[4] % 2) * (B \div 2), a[2] \div 2 + (a[3] % 2) * (B \div 2),
               a[1] \div 2 + (a[2] % 2) * (B \div 2), (a[1] % 2) * (B \div 2)>>,
             a[4] \div 2, d4)

\* qr the quotient of the significands and whether it is cut
DivPack(sg, qr, ex) == Pack(sg, qr[1], ex, qr[2])

FDiv(x, y) ==
    IF x.k = "nan" \/ y.k = "nan" THEN NaN
    ELSE IF x.k = "inf"
         THEN IF y.k = "inf" THEN NaN ELSE Inf(x.s * y.s)
    ELSE IF y.k = "inf" THEN Zero
    ELSE IF y.m = Q0
         THEN IF x.m = Q0 THEN NaN ELSE Inf(x.s)
    ELSE IF x.m = Q0 THEN Zero
    ELSE DivPack(x.s * y.s,
                 IF y.m[1] = 0 /\ y.m[2] = 0 /\ y.m[3] = 0
                 THEN QDivideShort(x.m, y.m[4]) ELSE QDivide(x.m, y.m),
                 x.e - y.e - 55)

\* Comparisons: false whenever an operand is NaN
FLt(x, y) ==
    /\ x.k # "nan" /\ y.k # "nan" /\ x # y
    /\ IF x.k = "inf" THEN x.s = -1
       ELSE IF y.k = "inf" THEN y.s = 1
       ELSE IF x.m = Q0 THEN y.s = 1
       ELSE IF y.m = Q0 THEN x.s = -1
       ELSE IF x.s # y.s THEN x.s = -1
       ELSE IF x.s = 1 THEN MagLess(x, y) ELSE MagLess(y, x)
FGt(x, y) == FLt(y, x)
FLe(x, y) == x.k # "nan" /\ y.k # "nan" /\ ~FLt(y, x)
FGe(x, y) == FLe(y, x)
FEq(x, y) == x.k # "nan" /\ y.k # "nan" /\ x = y

\* The integer an integer-valued finite number below 2^31 stands for
ToInt(x) ==
    IF x.m = Q0 THEN 0 ELSE x.s * QToNat(QShr(x.m, -x.e))

\* The integer part of |x| and what the fraction of |x| is, for x.e < 0
FracHalfBit(x) == -x.e <= QBitsMax /\ QShr(x.m, -x.e - 1)[1] % 2 = 1
FracBelowHalf(x) == QLost(x.m, -x.e - 1)
IntPart(x) == QShr(x.m, -x.e)

\* The integer next to x: the integer part of |x|, one more when up
ToWhole(x, up) ==
    IF x.k # "fin" \/ x.e >= 0 THEN x
    ELSE Pack(x.s, IF up THEN QAdd(IntPart(x), Q1) ELSE IntPart(x), 0, FALSE)

\* Math.round: floor(x + 0.5), on the exact value
MathRound(x) ==
    ToWhole(x, x.k = "fin" /\ x.e < 0 /\ FracHalfBit(x) /\ (x.s = 1 \/ FracBelowHalf(x)))

\* Math.Ceiling
MathCeiling(x) ==
    ToWhole(x, x.k = "fin" /\ x.e < 0 /\ x.s = 1 /\ QLost(x.m, -x.e))

\* Math.max, Math.min of two numbers
MathMax(x, y) ==
    IF x.k = "nan" \/ y.k = "nan" THEN NaN ELSE IF FLt(x, y) THEN y ELSE x
MathMin(x, y) ==
    IF x.k = "nan" \/ y.k = "nan" THEN NaN ELSE IF FLt(y, x) THEN y ELSE x

\* x^n for a natural n by squaring, every product rounded: h is x^(n div 2)
PowOdd(x, n, sq) == IF n % 2 = 1 THEN FMul(sq, x) ELSE sq
PowStep(x, n, h) == PowOdd(x, n, FMul(h, h))
RECURSIVE PowNat(_, _)
PowNat(x, n) ==
    IF n = 0 THEN One
    ELSE IF n = 1 THEN x
    ELSE PowStep(x, n, PowNat(x, n \div 2))

\* Math.pow(x, y) for an integer-valued y (the only use the code makes of it)
PowSigned(sg, p) == IF sg = 1 THEN p ELSE FDiv(One, p)
MathPow(x, y) ==
    IF y.k = "nan" THEN NaN
    ELSE IF IsZero(y) THEN One
    ELSE IF x.k = "nan" THEN NaN
    ELSE PowSigned(y.s, PowNat(x, y.s * ToInt(y)))

(***************************************************************************)
(* Dates (JS Date, local time zone UTC): a year, a 0-based month, a day    *)
(***************************************************************************)
IsLeap(y) == (y % 4 = 0 /\ y % 100 # 0) \/ y % 400 = 0
DaysInMonth(y, m) ==
    IF m = 1 THEN (IF IsLeap(y) THEN 29 ELSE 28)
    ELSE IF m \in {3, 5, 8, 10} THEN 30 ELSE 31

\* Date.prototype.setMonth(mm): the month may exceed 11, and a day past the
\* end of the month rolls over into the next month
SetMonth(date, mm) ==
    LET y == date.y + mm \div 12
        m == mm % 12
    IN  IF date.d <= DaysInMonth(y, m) THEN [y |-> y, m |-> m, d |-> date.d]
        ELSE [y |-> y, m |-> m + 1, d |-> date.d - DaysInMonth(y, m)]

\* toISOString().split('T')[0]: "YYYY-MM-DD", the month 1-based
ISODate(date) == <<date.y, date.m + 1, date.d>>

\* The date n days after 29 January 2024
RECURSIVE Roll(_)
Roll(date) ==
    IF date.d <= DaysInMonth(date.y, date.m) THEN date
    ELSE Roll([y |-> date.y + (date.m + 1) \div 12, m |-> (date.m + 1) % 12,
               d |-> date.d - DaysInMonth(date.y, date.m)])
Today(n) == Roll([y |-> 2024, m |-> 0, d |-> 29 + n])

(***************************************************************************)
(* Bounds and inputs                                                       *)
(***************************************************************************)
MaxTermYears == 2
MaxPrincipalSteps == 2
MaxRateSteps == 2
MaxTicks == 2
MaxCostSteps == 1
MaxRefiYears == 6
MaxIncomeSteps == 2
MaxDebtSteps == 1
MaxYearsToAnalyze == 4
MaxSaves == 12

\* Loan amounts: 0, 100000, 200000, ...; five cents; a negative amount
Principals ==
    {FromInt(n * 100000) : n \in 0..MaxPrincipalSteps}
        \cup {FDiv(FromInt(5), Hundred), FromInt(-1000)}
\* Annual rates in percent: 0, 3.5, 7, ...; a negative rate
Rates == {FDiv(FromInt(7 * n), FromInt(2)) : n \in 0..MaxRateSteps} \cup {FromInt(-1)}
\* Whole years, valid and not
Years == -1..MaxTermYears
Terms == {FromInt(n) : n \in Years}
\* Closing costs of a refinance: 0, 3000, ...
ClosingCosts ==
    {FromInt(n * 3000) : n \in 0..MaxCostSteps} \cup {FromInt(9700), FromInt(9800)}
\* Balances refinanced on the server: none, 100000, a negative one
RefiBalances == {Zero, FromInt(100000), FromInt(-1000)}
\* Terms of the loans of a refinance, in years
RefiYears == Years \cup {MaxRefiYears}
\* The loan scheduled repeatedly while the clock runs
ClockPrincipal == FromInt(100000)
ClockRates == {Zero, FromInt(7)}

\* Annual incomes: 0, 60000, 120000, ...
Incomes == {FromInt(n * 60000) : n \in 0..MaxIncomeSteps}
\* Monthly debts: 0, 1000, ...; 43% of the monthly income of 120000 a year, and more
MonthlyDebts == {FromInt(n * 1000) : n \in 0..MaxDebtSteps} \cup {FromInt(4300), FromInt(4400)}
\* Down payments: none, just below and at 10000; a negative one
DownPayments == {Zero, FromInt(9999), FromInt(10000), FromInt(-20000)}
\* Credit scores just below and at each of the thresholds 620, 680, 740
CreditScores == {619, 620, 679, 680, 739, 740}
EmploymentStatuses == {"Employed", "Unemployed"}

ValidLoan(principal, rate, years) ==
    FGe(principal, Zero) /\ FGe(rate, Zero) /\ FGt(years, Zero)

(***************************************************************************)
(* part_001: the browser-side library                                      *)
(***************************************************************************)
\* The formula with the denominator left at pw
lib_formula_whole_denominator(principal, r, pw) ==
    FDiv(FMul(FMul(principal, r), pw), pw)

\* lines 22-24: (principal * r * pw) / (pw - 1), pw being Math.pow(1 + r, n)
lib_formula(principal, r, pw) ==
    FDiv(FMul(FMul(principal, r), pw), FSub(pw, One))

\* lines 22-26: the annuity formula
lib_annuity(principal, r, n) == lib_formula(principal, r, MathPow(FAdd(One, r), n))

\* The payment with no branch for a rate of 0
lib_payment_formula_only(principal, r, n) == lib_annuity(principal, r, n)

\* lines 18-26, the two locals of lines 15-16 given
lib_payment(principal, r, n) ==
    IF FEq(r, Zero) THEN FDiv(principal, n) ELSE lib_annuity(principal, r, n)

\* lines 10-27
calculateMonthlyPayment(principal, annualInterestRate, loanTermYears) ==
    lib_payment(principal, FDiv(FDiv(annualInterestRate, Hundred), Twelve),
                FMul(loanTermYears, Twelve))

\* lines 69-77
calculateTotalInterest(principal, annualInterestRate, loanTermYears) ==
    FSub(FMul(FMul(calculateMonthlyPayment(principal, annualInterestRate, loanTermYears),
                   loanTermYears), Twelve),
         principal)

\* lines 139-148: the object returned, monthlySavings of line 139 given
lib_breakEven(monthlySavings, loanTermYears, closingCosts) ==
    [monthlySavings |-> monthlySavings,
     breakEvenMonths |-> IF FGt(monthlySavings, Zero)
                         THEN FDiv(closingCosts, monthlySavings) ELSE Zero,
     totalSavings |-> FSub(FMul(FMul(monthlySavings, loanTermYears), Twelve), closingCosts)]

\* lines 130-149
calculateRefinanceBreakEven(currentBalance, currentRate, newRate, loanTermYears, closingCosts) ==
    lib_breakEven(FSub(calculateMonthlyPayment(currentBalance, currentRate, loanTermYears),
                       calculateMonthlyPayment(currentBalance, newRate, loanTermYears)),
                  loanTermYears, closingCosts)

(***************************************************************************)
(* part_003: mortgageService, the browser-side service                     *)
(***************************************************************************)
\* Math.round(x * 100) / 100
RoundCents(x) == FDiv(MathRound(FMul(x, Hundred)), Hundred)

\* lines 154-156: principal * (r * pw) / (pw - 1), pw being Math.pow(1 + r, n)
svc_formula(principal, r, pw) ==
    FDiv(FMul(principal, FMul(r, pw)), FSub(pw, One))

\* lines 150-158, the two locals of lines 147-148 given
svc_payment(principal, r, n) ==
    IF FEq(r, Zero) THEN FDiv(principal, n)
    ELSE RoundCents(svc_formula(principal, r, MathPow(FAdd(One, r), n)))

\* lines 146-159
mortgageService_calculateMonthlyPayment(principal, annualRate, years) ==
    svc_payment(principal, FDiv(FDiv(annualRate, Hundred), Twelve), FMul(years, Twelve))

(***************************************************************************)
(* Query.cs: the server.  A decimal is carried as a number of the same      *)
(* format as a double.                                                      *)
(***************************************************************************)
\* (decimal)x of a double x throws OverflowException for NaN, an infinity and
\* a magnitude of 2^96 or more; (int)x of an integer-valued decimal throws it
\* for a magnitude of 2^31 or more
DecimalBits == 96
IntBits == 31
Overflows(x, bits) == x.k # "fin" \/ (x.m # Q0 /\ x.e + SigBits - 1 >= bits)

\* Math.Round(x, 2) of a decimal: to the nearest cent, a tie to the even cent
RoundToEven(x) ==
    ToWhole(x, x.k = "fin" /\ x.e < 0 /\ FracHalfBit(x)
                   /\ (FracBelowHalf(x) \/ IntPart(x)[1] % 2 = 1))
MathRound2(x) == FDiv(RoundToEven(FMul(x, Hundred)), Hundred)

\* lines 328-330, 335-337: amount * (r * Math.Pow(1 + r, n)) / (Math.Pow(1 + r, n) - 1)
srv_formula(amount, r, pw) == FDiv(FMul(amount, FMul(r, pw)), FSub(pw, One))
srv_annuity(amount, r, n) == srv_formula(amount, r, MathPow(FAdd(One, r), n))
\* lines 324-330, 333-337: the payment as a double, before the cast to decimal
srv_payment(amount, rate, years) ==
    srv_annuity(amount, FDiv(FDiv(rate, Hundred), Twelve), FromInt(years * 12))

\* The break-even period with no test of the sign of the savings
srv_breakEven_unguarded(input, monthlySavings) ==
    MathCeiling(FDiv(input.ClosingCosts, monthlySavings))

\* line 340, before the cast to int
srv_breakEven(input, monthlySavings) ==
    IF FGt(monthlySavings, Zero) THEN MathCeiling(FDiv(input.ClosingCosts, monthlySavings))
    ELSE Zero

\* The total savings counted over the remaining term of the current loan
srv_totalSavings_current_term(input, monthlySavings) ==
    FSub(FMul(monthlySavings, FromInt(input.RemainingYears * 12)), input.ClosingCosts)

\* line 343
srv_totalSavings(input, monthlySavings) ==
    FSub(FMul(monthlySavings,
              MathMin(FromInt(input.RemainingYears * 12), FromInt(input.NewLoanTermYears * 12))),
         input.ClosingCosts)

\* The DTO with no limit on the break-even period
srv_dto_no_threshold(currentPayment, newPayment, monthlySavings, breakEvenMonths, totalSavings) ==
    [currentPayment |-> MathRound2(currentPayment),
     newPayment |-> MathRound2(newPayment),
     monthlySavings |-> MathRound2(monthlySavings),
     breakEvenMonths |-> breakEvenMonths,
     totalSavings |-> MathRound2(totalSavings),
     isRecommended |-> FGt(totalSavings, Zero),
     recommendation |->
        IF FGt(totalSavings, Zero) THEN "recommended"
        ELSE IF FLe(monthlySavings, Zero) THEN "would increase"
        ELSE "too long"]

\* The DTO with the second text chosen on the total savings
srv_dto_text_on_total(currentPayment, newPayment, monthlySavings, breakEvenMonths, totalSavings) ==
    [currentPayment |-> MathRound2(currentPayment),
     newPayment |-> MathRound2(newPayment),
     monthlySavings |-> MathRound2(monthlySavings),
     breakEvenMonths |-> breakEvenMonths,
     totalSavings |-> MathRound2(totalSavings),
     isRecommended |-> FGt(totalSavings, Zero) /\ breakEvenMonths <= 60,
     recommendation |->
        IF FGt(totalSavings, Zero) /\ breakEvenMonths <= 60 THEN "recommended"
        ELSE IF FLe(totalSavings, Zero) THEN "would increase"
        ELSE "too long"]

\* lines 344-360: the DTO returned
srv_dto(currentPayment, newPayment, monthlySavings, breakEvenMonths, totalSavings) ==
    [currentPayment |-> MathRound2(currentPayment),
     newPayment |-> MathRound2(newPayment),
     monthlySavings |-> MathRound2(monthlySavings),
     breakEvenMonths |-> breakEvenMonths,
     totalSavings |-> MathRound2(totalSavings),
     isRecommended |-> FGt(totalSavings, Zero) /\ breakEvenMonths <= 60,
     recommendation |->
        IF FGt(totalSavings, Zero) /\ breakEvenMonths <= 60 THEN "recommended"
        ELSE IF FLe(monthlySavings, Zero) THEN "would increase"
        ELSE "too long"]

\* What a call ends with: the exception thrown, or "none" and the value returned
Threw(exception) == [thrown |-> exception, value |-> [none |-> TRUE]]
Returned(value) == [thrown |-> "none", value |-> value]

\* lines 340-360: the cast to int of line 340 and what follows it
srv_cast(input, currentPayment, newPayment, monthlySavings, breakEven) ==
    IF Overflows(breakEven, IntBits) THEN Threw("OverflowException")
    ELSE Returned(srv_dto(currentPayment, newPayment, monthlySavings, ToInt(breakEven),
                          srv_totalSavings(input, monthlySavings)))

\* lines 339-360, monthlySavings of line 339 given
srv_savings(input, currentPayment, newPayment, monthlySavings) ==
    srv_cast(input, currentPayment, newPayment, monthlySavings,
             srv_breakEven(input, monthlySavings))

\* lines 328-360, the two payments given as doubles: the casts to decimal of
\* lines 328 and 335 and what follows them
srv_analysis(input, currentPayment, newPayment) ==
    IF Overflows(currentPayment, DecimalBits) \/ Overflows(newPayment, DecimalBits)
    THEN Threw("OverflowException")
    ELSE srv_savings(input, currentPayment, newPayment, FSub(currentPayment, newPayment))

\* lines 322-361
AnalyzeRefinance(input) ==
    srv_analysis(input,
                 srv_payment(input.CurrentLoanAmount, input.CurrentInterestRate,
                             input.RemainingYears),
                 srv_payment(input.CurrentLoanAmount, input.NewInterestRate,
                             input.NewLoanTermYears))

\* x * 0.28m, x * 0.36m: the decimal product is exact, so the product by the
\* hundredths is taken whole and rounded once
Percent(x, hundredths) == FDiv(FMul(x, FromInt(hundredths)), Hundred)

\* The literal 0.43m
DtiLimit == Fin(1, <<11141, 8519, 4587, 1761>>, -54)

\* lines 376-377, 288-289: payment * (Math.Pow(1 + r, n) - 1) / (r * Math.Pow(1 + r, n))
srv_inverse(payment, r, pw) == FDiv(FMul(payment, FSub(pw, One)), FMul(r, pw))
srv_principal(payment, r, n) == srv_inverse(payment, r, MathPow(FAdd(One, r), n))

\* The DTO with the payment budget passed on as it is
afford_dto_unclamped(input, availableForMortgage, maxLoanAmount, debtToIncomeRatio) ==
    [maxLoanAmount |-> MathRound2(MathMax(Zero, maxLoanAmount)),
     maxHomePrice |-> MathRound2(MathMax(Zero, FAdd(maxLoanAmount, input.DownPayment))),
     recommendedPayment |-> MathRound2(availableForMortgage),
     debtToIncomeRatio |-> MathRound2(FMul(debtToIncomeRatio, Hundred)),
     isAffordable |-> FLe(debtToIncomeRatio, DtiLimit) /\ FGt(availableForMortgage, Zero)]

\* lines 379, 381-389: the DTO returned
afford_dto(input, availableForMortgage, maxLoanAmount, debtToIncomeRatio) ==
    [maxLoanAmount |-> MathRound2(MathMax(Zero, maxLoanAmount)),
     maxHomePrice |-> MathRound2(MathMax(Zero, FAdd(maxLoanAmount, input.DownPayment))),
     recommendedPayment |-> MathRound2(MathMax(Zero, availableForMortgage)),
     debtToIncomeRatio |-> MathRound2(FMul(debtToIncomeRatio, Hundred)),
     isAffordable |-> FLe(debtToIncomeRatio, DtiLimit) /\ FGt(availableForMortgage, Zero)]

\* lines 379-389: the decimal division of line 380, which throws
\* DivideByZeroException for a divisor of 0, and what follows it
afford_ratio(input, monthlyIncome, availableForMortgage, maxLoanAmount) ==
    IF IsZero(monthlyIncome) THEN Threw("DivideByZeroException")
    ELSE Returned(afford_dto(input, availableForMortgage, maxLoanAmount,
                             FDiv(FAdd(input.MonthlyDebts, availableForMortgage),
                                  monthlyIncome)))

\* lines 375-389: the cast to decimal of line 376 and what follows it
afford_cast(input, monthlyIncome, availableForMortgage, maxLoanAmount) ==
    IF Overflows(maxLoanAmount, DecimalBits) THEN Threw("OverflowException")
    ELSE afford_ratio(input, monthlyIncome, availableForMortgage, maxLoanAmount)

\* lines 371-389, availableForMortgage of line 369 given
afford_loan(input, monthlyIncome, availableForMortgage) ==
    IF FGt(availableForMortgage, Zero)
    THEN afford_cast(input, monthlyIncome, availableForMortgage,
                     srv_principal(availableForMortgage,
                                   FDiv(FDiv(input.InterestRate, Hundred), Twelve),
                                   FromInt(input.LoanTermYears * 12)))
    ELSE afford_ratio(input, monthlyIncome, availableForMortgage, Zero)

\* The budget with the 28% housing rule alone
afford_budget_front_end_only(input, monthlyIncome) ==
    afford_loan(input, monthlyIncome, Percent(monthlyIncome, 28))

\* lines 367-389, monthlyIncome of line 366 given
afford_budget(input, monthlyIncome) ==
    afford_loan(input, monthlyIncome,
                MathMin(Percent(monthlyIncome, 28),
                        FSub(Percent(monthlyIncome, 36), input.MonthlyDebts)))

\* lines 364-390
CalculateAffordability(input) == afford_budget(input, FDiv(input.AnnualIncome, Twelve))

\* The format N0 of a decimal: the nearest whole number, a tie away from zero;
\* the format P: the percentage with two decimals
FormatN0(x) == ToWhole(x, x.k = "fin" /\ x.e < 0 /\ FracHalfBit(x))
FormatP(x) == FDiv(FormatN0(FMul(x, FromInt(10000))), Hundred)

\* lines 305-314: the list of reasons
decline_reasons(dtiRatio, creditScore, downPayment, employmentStatus) ==
    (IF FGt(dtiRatio, DtiLimit)
     THEN <<[clause |-> "debt-to-income ratio", shown |-> FormatP(dtiRatio)]>> ELSE <<>>)
    \o (IF creditScore < 620
        THEN <<[clause |-> "credit score", shown |-> FromInt(creditScore)]>> ELSE <<>>)
    \o (IF FLt(downPayment, FromInt(10000)) THEN <<[clause |-> "down payment"]>> ELSE <<>>)
    \o (IF employmentStatus = "Unemployed" THEN <<[clause |-> "employment"]>> ELSE <<>>)

\* lines 316-318
decline_message(reasons) ==
    IF Len(reasons) > 0 THEN [text |-> "To improve your chances", reasons |-> reasons]
    ELSE [text |-> "Please speak with a loan officer", reasons |-> <<>>]

\* The message that names the first reason only
decline_first_reason_only(dtiRatio, creditScore, downPayment, employmentStatus) ==
    decline_message(SubSeq(decline_reasons(dtiRatio, creditScore, downPayment,
                                           employmentStatus), 1, 1))

\* lines 303-319
GetPreApprovalDeclineReason(dtiRatio, creditScore, downPayment, employmentStatus) ==
    decline_message(decline_reasons(dtiRatio, creditScore, downPayment, employmentStatus))

\* lines 291-300: the DTO returned
pre_dto(input, debtToIncomeRatio, isEligible, estimatedRate, maxLoanAmount) ==
    [isEligible |-> isEligible,
     maxLoanAmount |-> MathRound2(MathMax(Zero, maxLoanAmount)),
     estimatedRate |-> estimatedRate,
     message |->
        IF isEligible THEN [text |-> "Congratulations", amount |-> FormatN0(maxLoanAmount)]
        ELSE GetPreApprovalDeclineReason(debtToIncomeRatio, input.CreditScore,
                                         input.DownPayment, input.EmploymentStatus)]

\* lines 287-300: the cast to decimal of line 288 and what follows it
pre_cast(input, debtToIncomeRatio, isEligible, estimatedRate, maxLoanAmount) ==
    IF Overflows(maxLoanAmount, DecimalBits) THEN Threw("OverflowException")
    ELSE Returned(pre_dto(input, debtToIncomeRatio, isEligible, estimatedRate, maxLoanAmount))

\* The loan back-solved whether or not the applicant is eligible
pre_loan_of_anyone(input, debtToIncomeRatio, isEligible, estimatedRate, maxMonthlyPayment) ==
    IF FGt(maxMonthlyPayment, Zero)
    THEN pre_cast(input, debtToIncomeRatio, isEligible, estimatedRate,
                  srv_principal(maxMonthlyPayment,
                                FDiv(FDiv(estimatedRate, Hundred), Twelve),
                                FromInt(30 * 12)))
    ELSE Returned(pre_dto(input, debtToIncomeRatio, isEligible, estimatedRate, Zero))

\* lines 284-300
pre_loan(input, debtToIncomeRatio, isEligible, estimatedRate, maxMonthlyPayment) ==
    IF isEligible /\ FGt(maxMonthlyPayment, Zero)
    THEN pre_cast(input, debtToIncomeRatio, isEligible, estimatedRate,
                  srv_principal(maxMonthlyPayment,
                                FDiv(FDiv(estimatedRate, Hundred), Twelve),
                                FromInt(30 * 12)))
    ELSE Returned(pre_dto(input, debtToIncomeRatio, isEligible, estimatedRate, Zero))

\* The rate tiers with > for >=
pre_rate_strict(creditScore) ==
    IF creditScore > 740 THEN Fin(1, <<0, 0, 0, 1664>>, -50)
    ELSE IF creditScore > 680 THEN Fin(1, <<0, 0, 0, 1792>>, -50)
    ELSE Fin(1, <<0, 0, 0, 1920>>, -50)

\* lines 281-282: 6.5m, 7.0m or 7.5m
pre_rate(creditScore) ==
    IF creditScore >= 740 THEN Fin(1, <<0, 0, 0, 1664>>, -50)
    ELSE IF creditScore >= 680 THEN Fin(1, <<0, 0, 0, 1792>>, -50)
    ELSE Fin(1, <<0, 0, 0, 1920>>, -50)

\* The qualification with no test of the down payment
pre_eligible_no_down_payment(input, debtToIncomeRatio) ==
    /\ FLe(debtToIncomeRatio, DtiLimit)
    /\ input.CreditScore >= 620
    /\ input.EmploymentStatus # "Unemployed"

\* lines 275-278
pre_eligible(input, debtToIncomeRatio) ==
    /\ FLe(debtToIncomeRatio, DtiLimit)
    /\ input.CreditScore >= 620
    /\ FGe(input.DownPayment, FromInt(10000))
    /\ input.EmploymentStatus # "Unemployed"

\* lines 274-300, the locals of lines 270-272 given
pre_check(input, monthlyIncome, debtToIncomeRatio) ==
    pre_loan(input, debtToIncomeRatio, pre_eligible(input, debtToIncomeRatio),
             pre_rate(input.CreditScore),
             FSub(Percent(monthlyIncome, 28), input.MonthlyDebts))

\* lines 271-300: the decimal division of line 272, which throws
\* DivideByZeroException for a divisor of 0, and what follows it
pre_ratio(input, monthlyIncome) ==
    IF IsZero(monthlyIncome) THEN Threw("DivideByZeroException")
    ELSE pre_check(input, monthlyIncome, FDiv(input.MonthlyDebts, monthlyIncome))

\* lines 267-301
CheckPreApproval(input) == pre_ratio(input, FDiv(input.AnnualIncome, Twelve))

(***************************************************************************)
(* State                                                                   *)
(***************************************************************************)
VARIABLES
    pc,                   \* "idle", "loop" (inside the for loop), "done" (returned)
    impl,                 \* the function running: "lib" (part_001) or "svc" (part_003)
    args,                 \* its arguments
    monthlyInterestRate,  \* locals of generateAmortizationSchedule
    numberOfPayments,
    monthlyPayment,
    remainingBalance,
    cumulativeInterest,
    cumulativePrincipal,
    payment,              \* the loop counter (payment in part_001, i in part_003)
    schedule,
    startDate,            \* part_003 only
    thrown,               \* the exception the call ended with, "none" if none
    now,                  \* the wall clock: days since the first day
    prev,                 \* the previous call and what it returned
    refi,                 \* the refinance analysis running: its input and result
    query,                \* the affordability or pre-approval query running, likewise
    rvb,                  \* locals of calculateRentVsBuy
    yearly,               \* the two cumulative costs after each simulated year
    remote,               \* the calculateMortgage call running: its input, the paths run, its result
    ui                    \* the calculator component: isCalculating, the stored history, the save running

vars == <<pc, impl, args, monthlyInterestRate, numberOfPayments, monthlyPayment,
          remainingBalance, cumulativeInterest, cumulativePrincipal, payment,
          schedule, startDate, thrown, now, prev, refi, query,
                   rvb, yearly, remote, ui>>

NoArgs == [principal |-> Zero, annualRate |-> Zero, years |-> Zero]
NoCall == [impl |-> "none", args |-> NoArgs, schedule |-> <<>>]
NoRefi == [input |-> [none |-> TRUE], out |-> [none |-> TRUE]]
NoQuery == [input |-> [none |-> TRUE], out |-> [none |-> TRUE]]
\* mortgage-calculator.tsx line 29: useState(false); the history not yet stored
NoSave == [isCalculating |-> FALSE, mortgageCalculations |-> <<>>, at |-> "idle",
           alert |-> "none", time |-> 0]

Idle ==
    /\ pc = "idle" /\ impl = "none" /\ args = NoArgs
    /\ monthlyInterestRate = Zero /\ numberOfPayments = Zero /\ monthlyPayment = Zero
    /\ remainingBalance = Zero /\ cumulativeInterest = Zero /\ cumulativePrincipal = Zero
    /\ payment = 0 /\ schedule = <<>> /\ startDate = Today(0) /\ thrown = "none"

Init ==
    /\ Idle /\ now = 0 /\ prev = NoCall /\ refi = NoRefi /\ query = NoQuery
    /\ rvb = [year |-> 0] /\ yearly = <<>> /\ remote = [settled |-> "none"] /\ ui = NoSave

\* The loop condition with < for <=
loop_stops_early == FLt(FromInt(payment), numberOfPayments)

\* part_001 line 43, part_003 line 175: the condition of the for loop
loop_continues == FLe(FromInt(payment), numberOfPayments)

\* part_001 lines 34-41: the call of generateAmortizationSchedule up to the loop
Call_lib(principal, annualInterestRate, loanTermYears) ==
    /\ pc = "idle"
    /\ pc' = "loop"
    /\ impl' = "lib"
    /\ args' = [principal |-> principal, annualRate |-> annualInterestRate,
                years |-> loanTermYears]
    /\ monthlyInterestRate' = FDiv(FDiv(annualInterestRate, Hundred), Twelve)
    /\ numberOfPayments' = FMul(loanTermYears, Twelve)
    /\ monthlyPayment' = calculateMonthlyPayment(principal, annualInterestRate, loanTermYears)
    /\ schedule' = <<>>
    /\ remainingBalance' = principal
    /\ cumulativeInterest' = Zero
    /\ cumulativePrincipal' = Zero
    /\ payment' = 1
    /\ UNCHANGED <<startDate, thrown, now, prev, refi, query,
                   rvb, yearly, remote, ui>>

\* The balance left as it is
lib_no_clamp(balance) == balance

\* part_001 lines 52-54: a negative balance becomes 0
lib_clamp(balance) == IF FLt(balance, Zero) THEN Zero ELSE balance

\* The entry with the two running totals fed from the wrong payments
lib_entry_swapped(interestPayment, principalPayment) ==
    [payment |-> payment,
     principal |-> principalPayment,
     interest |-> interestPayment,
     balance |-> lib_clamp(FSub(remainingBalance, principalPayment)),
     cumulativeInterest |-> FAdd(cumulativeInterest, principalPayment),
     cumulativePrincipal |-> FAdd(cumulativePrincipal, interestPayment)]

\* part_001 lines 47-63: the entry pushed, the two payments of lines 44-45 given
lib_entry(interestPayment, principalPayment) ==
    [payment |-> payment,
     principal |-> principalPayment,
     interest |-> interestPayment,
     balance |-> lib_clamp(FSub(remainingBalance, principalPayment)),
     cumulativeInterest |-> FAdd(cumulativeInterest, interestPayment),
     cumulativePrincipal |-> FAdd(cumulativePrincipal, principalPayment)]

\* part_001 lines 43-64: one iteration of the loop
Loop_lib ==
    /\ pc = "loop" /\ impl = "lib"
    /\ loop_continues
    /\ schedule' = Append(schedule,
           lib_entry(FMul(remainingBalance, monthlyInterestRate),
                     FSub(monthlyPayment, FMul(remainingBalance, monthlyInterestRate))))
    /\ remainingBalance' = schedule'[Len(schedule')].balance
    /\ cumulativeInterest' = schedule'[Len(schedule')].cumulativeInterest
    /\ cumulativePrincipal' = schedule'[Len(schedule')].cumulativePrincipal
    /\ payment' = payment + 1
    /\ UNCHANGED <<pc, impl, args, monthlyInterestRate, numberOfPayments, monthlyPayment,
                   startDate, thrown, now, prev, refi, query,
                   rvb, yearly, remote, ui>>

\* part_003 lines 167-173
Call_svc(principal, annualRate, years) ==
    /\ pc = "idle"
    /\ pc' = "loop"
    /\ impl' = "svc"
    /\ args' = [principal |-> principal, annualRate |-> annualRate, years |-> years]
    /\ monthlyInterestRate' = FDiv(FDiv(annualRate, Hundred), Twelve)
    /\ numberOfPayments' = FMul(years, Twelve)
    /\ monthlyPayment' = mortgageService_calculateMonthlyPayment(principal, annualRate, years)
    /\ schedule' = <<>>
    /\ remainingBalance' = principal
    /\ startDate' = Today(now)
    /\ payment' = 1
    /\ UNCHANGED <<cumulativeInterest, cumulativePrincipal, thrown, now, prev, refi, query,
                   rvb, yearly, remote, ui>>

\* part_003 lines 180-190: the entry pushed, the two payments of lines 176-177
\* given; the balance kept in the local of line 178 is neither rounded nor clamped
svc_entry(interestPayment, principalPayment) ==
    [paymentNumber |-> payment,
     paymentDate |-> ISODate(SetMonth(startDate, startDate.m + payment)),
     principal |-> RoundCents(principalPayment),
     interest |-> RoundCents(interestPayment),
     totalPayment |-> monthlyPayment,
     remainingBalance |-> MathMax(Zero, RoundCents(FSub(remainingBalance, principalPayment)))]

\* part_003 lines 175-191
Loop_svc ==
    /\ pc = "loop" /\ impl = "svc"
    /\ loop_continues
    /\ schedule' = Append(schedule,
           svc_entry(FMul(remainingBalance, monthlyInterestRate),
                     FSub(monthlyPayment, FMul(remainingBalance, monthlyInterestRate))))
    /\ remainingBalance' =
           FSub(remainingBalance,
                FSub(monthlyPayment, FMul(remainingBalance, monthlyInterestRate)))
    /\ payment' = payment + 1
    /\ UNCHANGED <<pc, impl, args, monthlyInterestRate, numberOfPayments, monthlyPayment,
                   cumulativeInterest, cumulativePrincipal, startDate, thrown, now, prev,
                   refi, query,
                   rvb, yearly, remote, ui>>

\* part_001 line 66, part_003 line 193: the loop is over, the schedule is returned
Return ==
    /\ pc = "loop"
    /\ ~loop_continues
    /\ pc' = "done"
    /\ UNCHANGED <<impl, args, monthlyInterestRate, numberOfPayments, monthlyPayment,
                   remainingBalance, cumulativeInterest, cumulativePrincipal, payment,
                   schedule, startDate, thrown, now, prev, refi, query,
                   rvb, yearly, remote, ui>>

\* part_001 lines 130-149: one call of calculateRefinanceBreakEven
Refi_lib(currentBalance, currentRate, newRate, loanTermYears, closingCosts) ==
    /\ pc = "idle"
    /\ pc' = "done"
    /\ impl' = "lib_refi"
    /\ refi' = [input |-> [currentBalance |-> currentBalance, currentRate |-> currentRate,
                           newRate |-> newRate, loanTermYears |-> loanTermYears,
                           closingCosts |-> closingCosts],
                out |-> calculateRefinanceBreakEven(currentBalance, currentRate, newRate,
                                                    loanTermYears, closingCosts)]
    /\ UNCHANGED <<args, monthlyInterestRate, numberOfPayments, monthlyPayment,
                   remainingBalance, cumulativeInterest, cumulativePrincipal, payment,
                   schedule, startDate, thrown, now, prev, query,
                   rvb, yearly, remote, ui>>

\* Query.cs lines 322-361: one call of AnalyzeRefinance, result being how it ends
Refi_srv_end(input, result) ==
    /\ pc = "idle"
    /\ pc' = "done"
    /\ impl' = "srv_refi"
    /\ thrown' = result.thrown
    /\ refi' = [input |-> input, out |-> result.value]
    /\ UNCHANGED <<args, monthlyInterestRate, numberOfPayments, monthlyPayment,
                   remainingBalance, cumulativeInterest, cumulativePrincipal, payment,
                   schedule, startDate, now, prev, query,
                   rvb, yearly, remote, ui>>
Refi_srv(input) == Refi_srv_end(input, AnalyzeRefinance(input))

\* Query.cs lines 364-390: one call of CalculateAffordability, result being how it ends
Afford_end(input, result) ==
    /\ pc = "idle"
    /\ pc' = "done"
    /\ impl' = "srv_afford"
    /\ thrown' = result.thrown
    /\ query' = [input |-> input, out |-> result.value]
    /\ UNCHANGED <<args, monthlyInterestRate, numberOfPayments, monthlyPayment,
                   remainingBalance, cumulativeInterest, cumulativePrincipal, payment,
                   schedule, startDate, now, prev, refi,
                   rvb, yearly, remote, ui>>
Afford(input) == Afford_end(input, CalculateAffordability(input))

\* Query.cs lines 267-301: one call of CheckPreApproval, result being how it ends
PreApproval_end(input, result) ==
    /\ pc = "idle"
    /\ pc' = "done"
    /\ impl' = "srv_preapproval"
    /\ thrown' = result.thrown
    /\ query' = [input |-> input, out |-> result.value]
    /\ UNCHANGED <<args, monthlyInterestRate, numberOfPayments, monthlyPayment,
                   remainingBalance, cumulativeInterest, cumulativePrincipal, payment,
                   schedule, startDate, now, prev, refi,
                   rvb, yearly, remote, ui>>
PreApproval(input) == PreApproval_end(input, CheckPreApproval(input))

\* The wall clock: a day passes
Tick ==
    /\ now < MaxTicks
    /\ now' = now + 1
    /\ UNCHANGED <<pc, impl, args, monthlyInterestRate, numberOfPayments, monthlyPayment,
                   remainingBalance, cumulativeInterest, cumulativePrincipal, payment,
                   schedule, startDate, thrown, prev, refi, query,
                   rvb, yearly, remote, ui>>

\* The caller takes the result; the locals are gone
Consume ==
    /\ pc = "done"
    /\ pc' = "idle" /\ impl' = "none" /\ args' = NoArgs
    /\ monthlyInterestRate' = Zero /\ numberOfPayments' = Zero /\ monthlyPayment' = Zero
    /\ remainingBalance' = Zero /\ cumulativeInterest' = Zero /\ cumulativePrincipal' = Zero
    /\ payment' = 0 /\ schedule' = <<>> /\ startDate' = Today(0) /\ thrown' = "none"
    /\ refi' = NoRefi /\ query' = NoQuery
    /\ rvb' = [year |-> 0] /\ yearly' = <<>> /\ remote' = [settled |-> "none"]
    /\ UNCHANGED <<now, prev, ui>>

\* The caller keeps the schedule returned, to compare the next one against it
Keep ==
    /\ pc = "done" /\ impl \in {"lib", "svc"}
    /\ prev' = [impl |-> impl, args |-> args, schedule |-> schedule]
    /\ pc' = "idle" /\ impl' = "none" /\ args' = NoArgs
    /\ monthlyInterestRate' = Zero /\ numberOfPayments' = Zero /\ monthlyPayment' = Zero
    /\ remainingBalance' = Zero /\ cumulativeInterest' = Zero /\ cumulativePrincipal' = Zero
    /\ payment' = 0 /\ schedule' = <<>> /\ startDate' = Today(0) /\ thrown' = "none"
    /\ UNCHANGED <<now, refi, query,
                   rvb, yearly, remote, ui>>

(***************************************************************************)
(* calculateRentVsBuy (part_001 lines 79-128)                              *)
(***************************************************************************)
\* The comparisons made: one house, one loan term, and every combination of
\* the other inputs
RvbInputs ==
    [homePrice : {FromInt(200000)}, downPayment : {Zero, FromInt(40000)},
     interestRate : {Zero, FromInt(7)}, loanTermYears : {FromInt(30)},
     monthlyRent : {FromInt(1000), FromInt(3000)}, propertyTaxRate : {One},
     homeInsurance : {Zero, Hundred}, maintenanceRate : {One},
     rentIncreaseRate : {Zero, FromInt(3)},
     homeAppreciationRate : {FromInt(-10), Zero, FromInt(3)},
     yearsToAnalyze : 0..MaxYearsToAnalyze]

\* lines 102-111: totalBuyingCost after the year r.year
rvb_buying(r) ==
    FSub(FAdd(r.totalBuyingCost,
              FAdd(FAdd(FAdd(FMul(r.monthlyPayment, Twelve),
                             FMul(r.input.homePrice,
                                  FDiv(r.input.propertyTaxRate, Hundred))),
                        FMul(r.input.homeInsurance, Twelve)),
                   FMul(r.input.homePrice, FDiv(r.input.maintenanceRate, Hundred)))),
         FSub(FMul(r.input.homePrice,
                   MathPow(FAdd(One, FDiv(r.input.homeAppreciationRate, Hundred)),
                           FromInt(r.year))),
              r.input.homePrice))

\* The test of line 118 without its first conjunct: the last crossing is kept
rvb_breakEven_last_crossing(breakEvenYear, year, buying, renting) ==
    IF FLt(buying, renting) THEN year ELSE breakEvenYear
\* lines 118-120
rvb_breakEven(breakEvenYear, year, buying, renting) ==
    IF breakEvenYear = 0 /\ FLt(buying, renting) THEN year ELSE breakEvenYear

\* lines 92-98: the locals before the loop
Call_rvb(input) ==
    /\ pc = "idle"
    /\ pc' = "years"
    /\ impl' = "lib_rvb"
    /\ rvb' = [input |-> input,
               monthlyPayment |->
                   calculateMonthlyPayment(FSub(input.homePrice, input.downPayment),
                                           input.interestRate, input.loanTermYears),
               totalBuyingCost |-> input.downPayment,
               totalRentingCost |-> Zero,
               currentRent |-> input.monthlyRent,
               breakEvenYear |-> 0,
               year |-> 1]
    /\ yearly' = <<>>
    /\ UNCHANGED <<args, monthlyInterestRate, numberOfPayments, monthlyPayment,
                   remainingBalance, cumulativeInterest, cumulativePrincipal, payment,
                   schedule, startDate, thrown, now, prev, refi, query, remote, ui>>

\* lines 100-121: one year of the loop
Year_rvb ==
    /\ pc = "years"
    /\ rvb.year <= rvb.input.yearsToAnalyze
    /\ LET buying == rvb_buying(rvb)
           renting == FAdd(rvb.totalRentingCost, FMul(rvb.currentRent, Twelve))
       IN  /\ rvb' = [rvb EXCEPT
                  !.totalBuyingCost = buying,
                  !.totalRentingCost = renting,
                  !.currentRent =
                      FMul(rvb.currentRent,
                           FAdd(One, FDiv(rvb.input.rentIncreaseRate, Hundred))),
                  !.breakEvenYear = rvb_breakEven(rvb.breakEvenYear, rvb.year, buying, renting),
                  !.year = rvb.year + 1]
           /\ yearly' = Append(yearly, [buying |-> buying, renting |-> renting])
    /\ UNCHANGED <<pc, impl, args, monthlyInterestRate, numberOfPayments, monthlyPayment,
                   remainingBalance, cumulativeInterest, cumulativePrincipal, payment,
                   schedule, startDate, thrown, now, prev, refi, query, remote, ui>>

\* lines 123-127: the loop is over, the three results are returned
Return_rvb ==
    /\ pc = "years"
    /\ rvb.year > rvb.input.yearsToAnalyze
    /\ pc' = "done"
    /\ UNCHANGED <<impl, args, monthlyInterestRate, numberOfPayments, monthlyPayment,
                   remainingBalance, cumulativeInterest, cumulativePrincipal, payment,
                   schedule, startDate, thrown, now, prev, refi, query, rvb, yearly,
                   remote, ui>>

(***************************************************************************)
(* mortgageService.calculateMortgage (part_003 lines 57-120)               *)
(***************************************************************************)
\* The calculations asked for: one-year loans, with and without a property tax
MortgageData ==
    [loanAmount : {ClockPrincipal}, interestRate : ClockRates, loanTermYears : {One},
     propertyTax : {Zero, FromInt(2400)}, homeInsurance : {FromInt(1200)},
     pmi : {Zero}, hoa : {FromInt(50)}]

\* x ? ... : ... and x || ... on a number: 0 and NaN are falsy
Falsy(x) == x.k = "nan" \/ IsZero(x)

\* part_003 lines 175-193: the entries from payment i on, startDate the day of the call
RECURSIVE mortgageService_generateAmortizationSchedule(_, _, _, _, _, _)
mortgageService_generateAmortizationSchedule(i, balance, monthlyRate, payments, amount, date) ==
    IF ~FLe(FromInt(i), payments) THEN <<>>
    ELSE <<[paymentNumber |-> i,
            paymentDate |-> ISODate(SetMonth(date, date.m + i)),
            principal |-> RoundCents(FSub(amount, FMul(balance, monthlyRate))),
            interest |-> RoundCents(FMul(balance, monthlyRate)),
            totalPayment |-> amount,
            remainingBalance |->
                MathMax(Zero, RoundCents(FSub(balance,
                                              FSub(amount, FMul(balance, monthlyRate)))))]>>
         \o mortgageService_generateAmortizationSchedule(
                i + 1, FSub(balance, FSub(amount, FMul(balance, monthlyRate))),
                monthlyRate, payments, amount, date)

\* part_003 lines 102-120
calculateMortgageLocally(data, date) ==
    LET payment1 == mortgageService_calculateMonthlyPayment(
                        data.loanAmount, data.interestRate, data.loanTermYears)
    IN  [monthlyPayment |-> payment1,
         totalPayment |-> FMul(FMul(payment1, data.loanTermYears), Twelve),
         totalInterest |-> FSub(FMul(FMul(payment1, data.loanTermYears), Twelve),
                                data.loanAmount),
         principalAndInterest |-> payment1,
         monthlyPropertyTax |->
             IF Falsy(data.propertyTax) THEN Zero ELSE FDiv(data.propertyTax, Twelve),
         monthlyHomeInsurance |->
             IF Falsy(data.homeInsurance) THEN Zero ELSE FDiv(data.homeInsurance, Twelve),
         monthlyPMI |-> IF Falsy(data.pmi) THEN Zero ELSE data.pmi,
         monthlyHOA |-> IF Falsy(data.hoa) THEN Zero ELSE data.hoa,
         amortizationSchedule |->
             mortgageService_generateAmortizationSchedule(
                 1, data.loanAmount, FDiv(FDiv(data.interestRate, Hundred), Twelve),
                 FMul(data.loanTermYears, Twelve), payment1, date)]

\* part_003 lines 76-92: the server's answer in the shape the callers expect
calculateMortgage_result(data, mortgageResult, date) ==
    [monthlyPayment |-> mortgageResult.monthlyPayment,
     totalPayment |-> mortgageResult.totalPayment,
     totalInterest |-> mortgageResult.totalInterest,
     principalAndInterest |-> mortgageResult.monthlyPayment,
     monthlyPropertyTax |->
         IF Falsy(data.propertyTax) THEN Zero ELSE FDiv(data.propertyTax, Twelve),
     monthlyHomeInsurance |->
         IF Falsy(data.homeInsurance) THEN Zero ELSE FDiv(data.homeInsurance, Twelve),
     monthlyPMI |-> IF Falsy(data.pmi) THEN Zero ELSE data.pmi,
     monthlyHOA |-> IF Falsy(data.hoa) THEN Zero ELSE data.hoa,
     amortizationSchedule |->
         [n \in 1..Len(mortgageResult.amortizationSchedule) |->
             [paymentNumber |-> mortgageResult.amortizationSchedule[n].paymentNumber,
              paymentDate |-> ISODate(date),
              principal |-> mortgageResult.amortizationSchedule[n].principalAmount,
              interest |-> mortgageResult.amortizationSchedule[n].interestAmount,
              totalPayment |-> mortgageResult.amortizationSchedule[n].paymentAmount,
              remainingBalance |-> mortgageResult.amortizationSchedule[n].remainingBalance]]]

\* part_003 lines 58-71: the query is sent and awaited
CalculateMortgage(data) ==
    /\ pc = "idle"
    /\ pc' = "query"
    /\ impl' = "svc_mortgage"
    /\ remote' = [data |-> data, settled |-> "pending", outcome |-> "pending",
                  ran |-> <<"query">>]
    /\ UNCHANGED <<args, monthlyInterestRate, numberOfPayments, monthlyPayment,
                   remainingBalance, cumulativeInterest, cumulativePrincipal, payment,
                   schedule, startDate, thrown, now, prev, refi, query, rvb, yearly, ui>>

\* part_003 lines 73-92: the query resolved with the server's calculation
Query_resolves(mortgageResult) ==
    /\ pc = "query"
    /\ pc' = "done"
    /\ remote' = [data |-> remote.data, settled |-> "fulfilled", outcome |-> "data",
                  ran |-> remote.ran, from |-> "remote", answer |-> mortgageResult,
                  result |-> calculateMortgage_result(remote.data, mortgageResult,
                                                      Today(now))]
    /\ UNCHANGED <<impl, args, monthlyInterestRate, numberOfPayments, monthlyPayment,
                   remainingBalance, cumulativeInterest, cumulativePrincipal, payment,
                   schedule, startDate, thrown, now, prev, refi, query, rvb, yearly, ui>>

\* The catch block of lines 93-97 throwing the error on
Query_fails_rethrows(failure) ==
    /\ pc = "query"
    /\ pc' = "done"
    /\ remote' = [data |-> remote.data, settled |-> "rejected", outcome |-> failure,
                  ran |-> remote.ran, from |-> "none"]
    /\ UNCHANGED <<impl, args, monthlyInterestRate, numberOfPayments, monthlyPayment,
                   remainingBalance, cumulativeInterest, cumulativePrincipal, payment,
                   schedule, startDate, thrown, now, prev, refi, query, rvb, yearly, ui>>
\* part_003 lines 60-73 and 93-97: the query rejected (the network failed), or it
\* resolved without data (lib/apollo-client.ts line 66, errorPolicy 'all') and
\* line 73 threw a TypeError; the catch block calculates locally
Query_fails(failure) ==
    /\ pc = "query"
    /\ pc' = "done"
    /\ remote' = [data |-> remote.data, settled |-> "fulfilled", outcome |-> failure,
                  ran |-> Append(remote.ran, "local"), from |-> "local",
                  result |-> calculateMortgageLocally(remote.data, Today(now))]
    /\ UNCHANGED <<impl, args, monthlyInterestRate, numberOfPayments, monthlyPayment,
                   remainingBalance, cumulativeInterest, cumulativePrincipal, payment,
                   schedule, startDate, thrown, now, prev, refi, query, rvb, yearly, ui>>

(***************************************************************************)
(* MortgageCalculator.handleSaveCalculation (mortgage-calculator.tsx       *)
(* lines 50-87)                                                            *)
(***************************************************************************)
\* lines 50-53, the button of lines 184-188 enabled: the flag is set and the
\* calculation is posted
handleSaveCalculation ==
    /\ ~ui.isCalculating
    /\ ui.time < MaxSaves
    /\ ui' = [ui EXCEPT !.isCalculating = TRUE, !.at = "post"]
    /\ UNCHANGED <<pc, impl, args, monthlyInterestRate, numberOfPayments, monthlyPayment,
                   remainingBalance, cumulativeInterest, cumulativePrincipal, payment,
                   schedule, startDate, thrown, now, prev, refi, query, rvb, yearly,
                   remote>>

\* Line 74 storing the whole list
Post_resolves_unsliced ==
    /\ ui.at = "post"
    /\ ui' = [isCalculating |-> FALSE,
              mortgageCalculations |-> <<[id |-> ui.time + 1]>> \o ui.mortgageCalculations,
              at |-> "idle", alert |-> "saved", time |-> ui.time + 1]
    /\ UNCHANGED <<pc, impl, args, monthlyInterestRate, numberOfPayments, monthlyPayment,
                   remainingBalance, cumulativeInterest, cumulativePrincipal, payment,
                   schedule, startDate, thrown, now, prev, refi, query, rvb, yearly,
                   remote>>
\* lines 63-76 and 83-85: the POST resolved; the entry, its id the time read, goes
\* in front of the stored list, the first ten are stored, the flag is cleared
Post_resolves ==
    /\ ui.at = "post"
    /\ ui' = [isCalculating |-> FALSE,
              mortgageCalculations |->
                  SubSeq(<<[id |-> ui.time + 1]>> \o ui.mortgageCalculations, 1,
                         IF Len(ui.mortgageCalculations) + 1 < 10
                         THEN Len(ui.mortgageCalculations) + 1 ELSE 10),
              at |-> "idle", alert |-> "saved", time |-> ui.time + 1]
    /\ UNCHANGED <<pc, impl, args, monthlyInterestRate, numberOfPayments, monthlyPayment,
                   remainingBalance, cumulativeInterest, cumulativePrincipal, payment,
                   schedule, startDate, thrown, now, prev, refi, query, rvb, yearly,
                   remote>>

\* lines 78-85: the POST threw or rejected; the error is shown, the flag is cleared
Post_rejects ==
    /\ ui.at = "post"
    /\ ui' = [ui EXCEPT !.isCalculating = FALSE, !.at = "idle", !.alert = "error"]
    /\ UNCHANGED <<pc, impl, args, monthlyInterestRate, numberOfPayments, monthlyPayment,
                   remainingBalance, cumulativeInterest, cumulativePrincipal, payment,
                   schedule, startDate, thrown, now, prev, refi, query, rvb, yearly,
                   remote>>

\* Schedules of every loan of the input sets, by either implementation
Next ==
    \/ \E p \in Principals, r \in Rates, y \in Terms : Call_lib(p, r, y)
    \/ \E p \in Principals, r \in Rates, y \in Terms : Call_svc(p, r, y)
    \/ Loop_lib
    \/ Loop_svc
    \/ Return
    \/ Consume

Spec == Init /\ [][Next]_vars

\* The same loan scheduled again and again while the days pass
NextClock ==
    \/ \E r \in ClockRates : Call_lib(ClockPrincipal, r, One)
    \/ \E r \in ClockRates : Call_svc(ClockPrincipal, r, One)
    \/ Loop_lib
    \/ Loop_svc
    \/ Return
    \/ Keep
    \/ Tick

SpecClock == Init /\ [][NextClock]_vars

\* Refinance analyses of every input of the input sets, in the browser and on the server
NextRefi ==
    \/ \E b \in Principals, c \in Rates, n \in Rates, y \in Terms, cc \in ClosingCosts :
           Refi_lib(b, c, n, y, cc)
    \/ \E b \in RefiBalances, c \in Rates, n \in Rates, ry \in RefiYears, ny \in RefiYears,
             cc \in ClosingCosts :
           Refi_srv([CurrentLoanAmount |-> b, CurrentInterestRate |-> c, RemainingYears |-> ry,
                     NewInterestRate |-> n, NewLoanTermYears |-> ny, ClosingCosts |-> cc])
    \/ Consume

SpecRefi == Init /\ [][NextRefi]_vars

\* Affordability and pre-approval queries of every input of the input sets, and
\* refinance analyses of loans that pass validation
NextQualify ==
    \/ \E i \in Incomes, d \in MonthlyDebts, dp \in DownPayments, r \in Rates, y \in Years :
           Afford([AnnualIncome |-> i, MonthlyDebts |-> d, DownPayment |-> dp,
                   InterestRate |-> r, LoanTermYears |-> y])
    \/ \E i \in Incomes, d \in MonthlyDebts, dp \in DownPayments, cs \in CreditScores,
             es \in EmploymentStatuses :
           PreApproval([AnnualIncome |-> i, MonthlyDebts |-> d, DownPayment |-> dp,
                        CreditScore |-> cs, EmploymentStatus |-> es])
    \/ \E c \in ClockRates, n \in ClockRates :
           Refi_srv([CurrentLoanAmount |-> ClockPrincipal, CurrentInterestRate |-> c,
                     RemainingYears |-> MaxTermYears, NewInterestRate |-> n,
                     NewLoanTermYears |-> MaxTermYears, ClosingCosts |-> Zero])
    \/ Consume

SpecQualify == Init /\ [][NextQualify]_vars

\* Rent-versus-buy comparisons of every input of the input set
NextRentVsBuy ==
    \/ \E input \in RvbInputs : Call_rvb(input)
    \/ Year_rvb
    \/ Return_rvb
    \/ Consume

SpecRentVsBuy == Init /\ [][NextRentVsBuy]_vars

\* The browser: mortgage calculations asked of the server, each answered with a
\* calculation or failing, and calculations saved from the calculator
NextClient ==
    \/ \E data \in MortgageData : CalculateMortgage(data)
    \/ \E amount \in {FromInt(8653), FromInt(8334)}, entries \in 0..1 :
           Query_resolves(
               [monthlyPayment |-> amount,
                totalPayment |-> FMul(amount, Twelve),
                totalInterest |-> FSub(FMul(amount, Twelve), ClockPrincipal),
                amortizationSchedule |->
                    [n \in 1..entries |->
                        [paymentNumber |-> n, paymentAmount |-> amount,
                         principalAmount |-> FromInt(8000),
                         interestAmount |-> FSub(amount, FromInt(8000)),
                         remainingBalance |-> FromInt(92000)]]])
    \/ \E failure \in {"rejected", "no data"} : Query_fails(failure)
    \/ Consume
    \/ handleSaveCalculation
    \/ Post_resolves
    \/ Post_rejects

SpecClient == Init /\ [][NextClient]_vars

(***************************************************************************)
(* Properties                                                              *)
(***************************************************************************)
Scheduling == impl \in {"lib", "svc"}
ValidArgs == ValidLoan(args.principal, args.annualRate, args.years)
EntryNumber(entry) == IF impl = "lib" THEN entry.payment ELSE entry.paymentNumber
EntryBalance(entry) == IF impl = "lib" THEN entry.balance ELSE entry.remainingBalance
LastEntry == schedule[Len(schedule)]
Within(a, b, tolerance) == FLe(FSub(a, b), tolerance) /\ FLe(FSub(b, a), tolerance)

C2_InvalidArgument ==
    (impl = "lib" /\ pc # "idle" /\ ~ValidArgs) => thrown = "InvalidArgument"

\* C3: for every valid loan the last entry of the schedule returned has
\* remaining balance exactly 0
C3_FinalBalanceZero ==
    (Scheduling /\ pc = "done" /\ ValidArgs)
    => (schedule # <<>> /\ EntryBalance(LastEntry) = Zero)

\* C4: no entry of a schedule carries a negative remaining balance, for all
\* inputs and all periods
C4_NoNegativeBalance ==
    Scheduling => \A i \in 1..Len(schedule) : FGe(EntryBalance(schedule[i]), Zero)

C4_BalanceClamped ==
    /\ impl = "svc" /\ schedule # <<>> /\ ValidArgs
    /\ FLt(remainingBalance, Zero)
    /\ EntryBalance(LastEntry) = Zero

\* C5: for whole termYears > 0 the schedule returned has exactly termYears * 12
\* entries, numbered 1, 2, ..., termYears * 12 in that order, and every call
\* starts again from period 1
C5_PeriodNumbers ==
    Scheduling =>
        /\ \A i \in 1..Len(schedule) : EntryNumber(schedule[i]) = i
        /\ pc = "loop" => payment = Len(schedule) + 1
        /\ (pc = "done" /\ FGt(args.years, Zero)) => Len(schedule) = 12 * ToInt(args.years)

C5_FullSchedule ==
    /\ Scheduling /\ pc = "done"
    /\ args.years = FromInt(MaxTermYears)
    /\ Len(schedule) = 12 * MaxTermYears
    /\ EntryNumber(LastEntry) = 12 * MaxTermYears

\* C6: across the entries of one schedule the remaining balance never grows: the
\* first is <= principal and each later one <= the one before, for every valid loan
C6_BalanceNonIncreasing ==
    (Scheduling /\ ValidArgs) =>
        \A i \in 1..Len(schedule) :
            FLe(EntryBalance(schedule[i]),
                IF i = 1 THEN args.principal ELSE EntryBalance(schedule[i - 1]))

\* C7: for every valid loan the library's last cumulativePrincipal equals the
\* principal and its last cumulativeInterest equals calculateTotalInterest
\* (monthlyPayment * termYears * 12 - principal), both within one cent per period
C7_SumsMatch ==
    (impl = "lib" /\ pc = "done" /\ ValidArgs) =>
        /\ Within(LastEntry.cumulativePrincipal, args.principal,
                  FDiv(numberOfPayments, Hundred))
        /\ Within(LastEntry.cumulativeInterest,
                  calculateTotalInterest(args.principal, args.annualRate, args.years),
                  FDiv(numberOfPayments, Hundred))

C7_InterestPaid ==
    /\ impl = "lib" /\ pc = "done" /\ ValidArgs
    /\ Len(schedule) = 12 * MaxTermYears
    /\ FGt(LastEntry.cumulativeInterest, FromInt(1000))
    /\ FGt(args.principal, Zero)

\* C8 (as amended): for principal > 0 and rate > 0 the library's monthly payment
\* is strictly decreasing in termYears, and the service's, which is rounded to
\* cents, never increases with termYears
C8_DecreasingInTerm ==
    (/\ Scheduling /\ pc # "idle"
     /\ FGt(args.principal, Zero) /\ FGt(args.annualRate, Zero) /\ FGt(args.years, Zero))
    => \A y2 \in Terms :
           FLt(args.years, y2) =>
               IF impl = "lib"
               THEN FGt(monthlyPayment,
                        calculateMonthlyPayment(args.principal, args.annualRate, y2))
               ELSE FGe(monthlyPayment,
                        mortgageService_calculateMonthlyPayment(args.principal,
                                                                args.annualRate, y2))

C8_ShorterTerm ==
    /\ impl = "lib" /\ pc = "done"
    /\ FGt(args.principal, Zero) /\ FGt(args.annualRate, Zero) /\ args.years = One
    /\ FGt(monthlyPayment,
           calculateMonthlyPayment(args.principal, args.annualRate, FromInt(2)))

\* C8 as stated: for principal >= 0 and rate > 0 the monthly payment is strictly
\* decreasing in termYears, in the library and in the service
C8_StrictlyDecreasing ==
    (/\ Scheduling /\ pc # "idle"
     /\ FGe(args.principal, Zero) /\ FGt(args.annualRate, Zero) /\ FGt(args.years, Zero))
    => \A y2 \in Terms :
           FLt(args.years, y2) =>
               FGt(monthlyPayment,
                   IF impl = "lib"
                   THEN calculateMonthlyPayment(args.principal, args.annualRate, y2)
                   ELSE mortgageService_calculateMonthlyPayment(args.principal,
                                                                args.annualRate, y2))

\* C9: two schedules generated from identical inputs are identical in every
\* field of every entry, whatever the days on which the two calls run
C9_SameInputsSameSchedule ==
    (Scheduling /\ pc = "done" /\ prev.impl = impl /\ prev.args = args)
    => schedule = prev.schedule

\* The monthly savings of a refinance analysis, before any rounding for display
RefiSavings ==
    IF impl = "lib_refi" THEN refi.out.monthlySavings
    ELSE FSub(srv_payment(refi.input.CurrentLoanAmount, refi.input.CurrentInterestRate,
                          refi.input.RemainingYears),
              srv_payment(refi.input.CurrentLoanAmount, refi.input.NewInterestRate,
                          refi.input.NewLoanTermYears))
RefiClosingCosts ==
    IF impl = "lib_refi" THEN refi.input.closingCosts ELSE refi.input.ClosingCosts
RefiBreakEven ==
    IF impl = "lib_refi" THEN refi.out.breakEvenMonths
    ELSE FromInt(refi.out.breakEvenMonths)

\* C10: in every refinance analysis, on the server and in the browser,
\* breakEvenPeriods is the ceiling of closingCosts / monthlySavings when
\* monthlySavings > 0 and 0 when monthlySavings <= 0
C10_BreakEvenCeiling ==
    (impl \in {"lib_refi", "srv_refi"} /\ pc = "done" /\ thrown = "none")
    => RefiBreakEven =
           IF FGt(RefiSavings, Zero)
           THEN MathCeiling(FDiv(RefiClosingCosts, RefiSavings))
           ELSE Zero

\* The refinance analysed, in the words of either implementation; the library
\* has one term for both loans
RefiBalance ==
    IF impl = "lib_refi" THEN refi.input.currentBalance ELSE refi.input.CurrentLoanAmount
RefiCurrentRate ==
    IF impl = "lib_refi" THEN refi.input.currentRate ELSE refi.input.CurrentInterestRate
RefiNewRate ==
    IF impl = "lib_refi" THEN refi.input.newRate ELSE refi.input.NewInterestRate
RefiCurrentYears ==
    IF impl = "lib_refi" THEN refi.input.loanTermYears
    ELSE FromInt(refi.input.RemainingYears)
RefiNewYears ==
    IF impl = "lib_refi" THEN refi.input.loanTermYears
    ELSE FromInt(refi.input.NewLoanTermYears)
RefiReturned == impl \in {"lib_refi", "srv_refi"} /\ pc = "done" /\ thrown = "none"
ValidRefi ==
    /\ FGe(RefiBalance, Zero) /\ FGe(RefiCurrentRate, Zero) /\ FGe(RefiNewRate, Zero)
    /\ FGt(RefiCurrentYears, Zero) /\ FGt(RefiNewYears, Zero)
    /\ FGe(RefiClosingCosts, Zero)

\* C11 (as amended): every result returned for a valid refinance input with
\* newRatePercent >= currentRatePercent and newTermYears = currentRemainingYears
\* has monthlySavings <= 0 and breakEvenPeriods = 0
C11_NoSavingsAtSameTerm ==
    (/\ RefiReturned /\ ValidRefi
     /\ FGe(RefiNewRate, RefiCurrentRate) /\ FEq(RefiNewYears, RefiCurrentYears))
    => (FLe(refi.out.monthlySavings, Zero) /\ FLe(RefiSavings, Zero)
        /\ RefiBreakEven = Zero)

C11_HigherRate ==
    /\ impl = "srv_refi" /\ pc = "done" /\ thrown = "none" /\ ValidRefi
    /\ FGt(RefiBalance, Zero) /\ FGt(RefiClosingCosts, Zero)
    /\ FGt(RefiNewRate, RefiCurrentRate) /\ FEq(RefiNewYears, RefiCurrentYears)
    /\ FLt(refi.out.monthlySavings, Zero) /\ refi.out.breakEvenMonths = 0

\* C11 as stated: every result returned for a valid refinance input with
\* newRatePercent >= currentRatePercent and newTermYears >= currentRemainingYears
\* has monthlySavings <= 0 and breakEvenPeriods = 0
C11_NoSavingsAtLongerTerm ==
    (/\ RefiReturned /\ ValidRefi
     /\ FGe(RefiNewRate, RefiCurrentRate) /\ FGe(RefiNewYears, RefiCurrentYears))
    => (FLe(refi.out.monthlySavings, Zero) /\ RefiBreakEven = Zero)

\* The periods of the shorter of the two terms, and the total savings counted
\* over them, before any rounding for display
RefiPeriods ==
    IF FLt(RefiNewYears, RefiCurrentYears) THEN FMul(RefiNewYears, Twelve)
    ELSE FMul(RefiCurrentYears, Twelve)
RefiTotal == FSub(FMul(RefiSavings, RefiPeriods), RefiClosingCosts)

\* C12: in every result returned for a valid input, totalSavings is monthlySavings times the
\* periods of the shorter of the two terms, 12 * min(currentRemainingYears,
\* newTermYears), minus closingCosts, to the cent, whichever term is shorter
C12_ShorterHorizon ==
    (RefiReturned /\ ValidRefi) => Within(refi.out.totalSavings, RefiTotal, FDiv(One, Hundred))

C12_NewTermShorter ==
    /\ impl = "srv_refi" /\ pc = "done" /\ thrown = "none" /\ ValidRefi
    /\ FLt(RefiNewYears, RefiCurrentYears)
    /\ FGt(RefiBalance, Zero) /\ ~FEq(RefiSavings, Zero)
    /\ Within(refi.out.totalSavings, RefiTotal, FDiv(One, Hundred))

\* C13: the server's isRecommended is true exactly when totalSavings, as computed
\* before it is rounded for the result, is > 0 and breakEvenPeriods <= 60
C13_RecommendedRule ==
    (impl = "srv_refi" /\ pc = "done" /\ thrown = "none")
    => (refi.out.isRecommended
        <=> (FGt(RefiTotal, Zero) /\ refi.out.breakEvenMonths <= 60))

C13_PaybackTooSlow ==
    /\ impl = "srv_refi" /\ pc = "done" /\ thrown = "none" /\ ValidRefi
    /\ FGt(refi.out.totalSavings, Zero) /\ refi.out.breakEvenMonths = 61
    /\ ~refi.out.isRecommended

\* C14: the server produces exactly one of three texts: the recommended one
\* exactly when isRecommended, the payment-would-increase one exactly when not
\* recommended and monthlySavings <= 0, the break-even-too-long one exactly when
\* not recommended and monthlySavings > 0
C14_OneOfThreeTexts ==
    (impl = "srv_refi" /\ pc = "done" /\ thrown = "none")
    => /\ refi.out.recommendation \in {"recommended", "would increase", "too long"}
       /\ refi.out.recommendation = "recommended" <=> refi.out.isRecommended
       /\ refi.out.recommendation = "would increase"
            <=> (~refi.out.isRecommended /\ FLe(RefiSavings, Zero))
       /\ refi.out.recommendation = "too long"
            <=> (~refi.out.isRecommended /\ FGt(RefiSavings, Zero))

C14_SavingsBelowCosts ==
    /\ impl = "srv_refi" /\ pc = "done" /\ thrown = "none" /\ ValidRefi
    /\ refi.out.recommendation = "too long"
    /\ FGt(RefiSavings, Zero) /\ FLt(refi.out.totalSavings, Zero)

\* The affordability or pre-approval query answered, and what its input gives
Afforded == impl = "srv_afford" /\ pc = "done" /\ thrown = "none"
PreApproved == impl = "srv_preapproval" /\ pc = "done" /\ thrown = "none"
QueryMonthlyIncome == FDiv(query.input.AnnualIncome, Twelve)
QueryBudget ==
    MathMin(Percent(QueryMonthlyIncome, 28),
            FSub(Percent(QueryMonthlyIncome, 36), query.input.MonthlyDebts))
ValidAfford ==
    /\ FGe(query.input.AnnualIncome, Zero) /\ FGe(query.input.MonthlyDebts, Zero)
    /\ FGe(query.input.DownPayment, Zero) /\ FGe(query.input.InterestRate, Zero)
    /\ query.input.LoanTermYears > 0
ValidPreApproval ==
    /\ FGe(query.input.AnnualIncome, Zero) /\ FGe(query.input.MonthlyDebts, Zero)
    /\ FGe(query.input.DownPayment, Zero)

\* C15: availableForMortgage is clamped to >= 0 before any later use, so the
\* debtToIncomeRatioPercent reported is (monthlyDebts + clamped
\* availableForMortgage) / monthlyIncome * 100, which is monthlyDebts /
\* monthlyIncome * 100 when the debts exceed 36% of the monthly income
C15_ClampedRatio ==
    (Afforded /\ ValidAfford)
    => query.out.debtToIncomeRatio =
           MathRound2(FMul(FDiv(FAdd(query.input.MonthlyDebts, MathMax(Zero, QueryBudget)),
                                QueryMonthlyIncome),
                           Hundred))

\* C16: maxLoanAmount, maxHomePrice and recommendedPayment of every
\* AffordabilityResult returned are >= 0, also when the debts exceed the budget
C16_MoneyNonNegative ==
    Afforded
    => /\ FGe(query.out.maxLoanAmount, Zero)
       /\ FGe(query.out.maxHomePrice, Zero)
       /\ FGe(query.out.recommendedPayment, Zero)

C16_DebtsExceedBudget ==
    /\ Afforded /\ ValidAfford
    /\ FLt(QueryBudget, Zero)
    /\ query.out.recommendedPayment = Zero /\ query.out.maxLoanAmount = Zero

\* C17: on every input that passes validation (non-negative income, debts,
\* balance and rates, positive whole terms) calculateAffordability,
\* checkPreApproval and analyzeRefinance return a result and raise no error, a
\* rate of exactly 0 and an income of exactly 0 included
C17_ValidInputsReturn ==
    /\ (impl = "srv_afford" /\ pc = "done" /\ ValidAfford) => thrown = "none"
    /\ (impl = "srv_preapproval" /\ pc = "done" /\ ValidPreApproval) => thrown = "none"
    /\ (impl = "srv_refi" /\ pc = "done" /\ ValidRefi) => thrown = "none"

\* C18: isEligible is true exactly when monthlyDebts / (annualIncome / 12) <= 0.43,
\* creditScore >= 620, downPayment >= 10000 and employmentStatus is not
\* "Unemployed" all hold; any one of them failing alone makes it false
C18_EligibleRule ==
    PreApproved
    => (query.out.isEligible
        <=> /\ FLe(FDiv(query.input.MonthlyDebts, QueryMonthlyIncome),
                   FDiv(FromInt(43), Hundred))
            /\ query.input.CreditScore >= 620
            /\ FGe(query.input.DownPayment, FromInt(10000))
            /\ query.input.EmploymentStatus # "Unemployed")

C18_DownPaymentAlone ==
    /\ PreApproved
    /\ FDiv(query.input.MonthlyDebts, QueryMonthlyIncome) = FDiv(FromInt(43), Hundred)
    /\ query.input.CreditScore = 620
    /\ query.input.DownPayment = FromInt(9999)
    /\ query.input.EmploymentStatus = "Employed"
    /\ ~query.out.isEligible

\* C19: the estimated rate is 6.5 for every credit score >= 740, 7.0 for 680..739
\* and 7.5 below 680, whether or not the applicant is eligible
C19_RateTiers ==
    PreApproved
    => query.out.estimatedRate =
           IF query.input.CreditScore >= 740 THEN FDiv(FromInt(13), FromInt(2))
           ELSE IF query.input.CreditScore >= 680 THEN FromInt(7)
           ELSE FDiv(FromInt(15), FromInt(2))

C19_BoundaryOfIneligible ==
    /\ PreApproved /\ ~query.out.isEligible
    /\ query.input.CreditScore = 680
    /\ query.out.estimatedRate = FromInt(7)

\* The checks the input of the pre-approval fails, by the name of their clause
FailedChecks ==
    (IF FGt(FDiv(query.input.MonthlyDebts, QueryMonthlyIncome), FDiv(FromInt(43), Hundred))
     THEN {"debt-to-income ratio"} ELSE {})
    \cup (IF query.input.CreditScore < 620 THEN {"credit score"} ELSE {})
    \cup (IF FLt(query.input.DownPayment, FromInt(10000)) THEN {"down payment"} ELSE {})
    \cup (IF query.input.EmploymentStatus = "Unemployed" THEN {"employment"} ELSE {})
Clauses == {query.out.message.reasons[i].clause : i \in 1..Len(query.out.message.reasons)}

\* C20: when isEligible is false the message has one clause for every failing
\* check and none for a passing one: the clauses are the failed checks, there is
\* at least one, and the speak-with-a-loan-officer fallback is never produced
C20_ClausesAreFailedChecks ==
    (PreApproved /\ ~query.out.isEligible)
    => /\ query.out.message.text = "To improve your chances"
       /\ Clauses = FailedChecks
       /\ Clauses # {}
       /\ Cardinality(Clauses) = Len(query.out.message.reasons)

C20_EveryCheckFails ==
    /\ PreApproved /\ ~query.out.isEligible
    /\ Len(query.out.message.reasons) = 4
    /\ FailedChecks = {"debt-to-income ratio", "credit score", "down payment", "employment"}

\* What calculateAffordability returns for the applicant of the pre-approval
\* answered, at a 30-year term and the estimated rate
AffordabilityOfApplicant ==
    CalculateAffordability([AnnualIncome |-> query.input.AnnualIncome,
                            MonthlyDebts |-> query.input.MonthlyDebts,
                            DownPayment |-> query.input.DownPayment,
                            InterestRate |-> query.out.estimatedRate,
                            LoanTermYears |-> 30])
SameLoanAs(result) ==
    result.thrown = "none" /\ result.value.maxLoanAmount = query.out.maxLoanAmount

\* C21: for an eligible applicant the maxLoanAmount of checkPreApproval equals
\* the maxLoanAmount calculateAffordability returns for the same annualIncome
\* and monthlyDebts at a 30-year term and the applicant's estimated rate
C21_SameBackSolve ==
    (PreApproved /\ ValidPreApproval /\ query.out.isEligible)
    => SameLoanAs(AffordabilityOfApplicant)

\* C24: whenever the break-even-too-long text is produced, the breakEvenPeriods
\* reported is greater than 60
C24_TooLongIsOverSixty ==
    (impl = "srv_refi" /\ pc = "done" /\ thrown = "none" /\ ValidRefi
     /\ refi.out.recommendation = "too long")
    => refi.out.breakEvenMonths > 60

\* C25: whenever checkPreApproval returns isEligible = true, the maxLoanAmount
\* returned is strictly positive
C25_EligibleLoanPositive ==
    (PreApproved /\ ValidPreApproval /\ query.out.isEligible)
    => FGt(query.out.maxLoanAmount, Zero)

\* C26: whenever checkPreApproval returns isEligible = false, the maxLoanAmount
\* returned is exactly 0, whatever the income, debts and credit score
C26_IneligibleLoanZero ==
    (PreApproved /\ ~query.out.isEligible) => query.out.maxLoanAmount = Zero

C26_IneligibleWithBudget ==
    /\ PreApproved /\ ValidPreApproval /\ ~query.out.isEligible
    /\ FGt(FSub(Percent(QueryMonthlyIncome, 28), query.input.MonthlyDebts), Zero)
    /\ query.input.CreditScore = 619
    /\ query.out.maxLoanAmount = Zero

\* C27: for annualIncome > 0 and monthlyDebts >= 0 the debtToIncomeRatioPercent
\* reported by calculateAffordability never exceeds 36, and isAffordable is true
\* exactly when availableForMortgage > 0
C27_RatioAtMost36 ==
    (Afforded /\ FGt(query.input.AnnualIncome, Zero) /\ FGe(query.input.MonthlyDebts, Zero))
    => /\ FLe(query.out.debtToIncomeRatio, FromInt(36))
       /\ query.out.isAffordable <=> FGt(QueryBudget, Zero)

C27_BackEndBudget ==
    /\ Afforded /\ ValidAfford
    /\ FGt(query.input.MonthlyDebts, Zero)
    /\ query.out.debtToIncomeRatio = FromInt(36)
    /\ query.out.isAffordable

\* The remaining balance of an entry of the schedule kept from the previous call
PrevBalance(entry) == IF prev.impl = "lib" THEN entry.balance ELSE entry.remainingBalance

\* C28: for the same principal, rate and term, the schedule of the service and
\* the schedule of the library agree on the remaining balance of every period to
\* within one cent
C28_SchedulesAgree ==
    (/\ Scheduling /\ pc = "done"
     /\ prev.impl \in {"lib", "svc"} /\ prev.impl # impl /\ prev.args = args)
    => /\ Len(schedule) = Len(prev.schedule)
       /\ \A i \in 1..Len(schedule) :
              Within(EntryBalance(schedule[i]), PrevBalance(prev.schedule[i]),
                     FDiv(One, Hundred))

(***************************************************************************)
(* Rent versus buy                                                         *)
(***************************************************************************)
Comparing == impl = "lib_rvb" /\ pc \in {"years", "done"}
Crossed(y) == FLt(yearly[y].buying, yearly[y].renting)
BuyingBefore(y) == IF y = 1 THEN rvb.input.downPayment ELSE yearly[y - 1].buying

\* C22: breakEvenYear is the smallest simulated year at which the cumulative
\* buying cost is strictly below the cumulative renting cost; later years never
\* change it, and it is 0 exactly when no simulated year crossed
C22_FirstCrossing ==
    Comparing =>
        /\ rvb.breakEvenYear = 0 <=> \A y \in 1..Len(yearly) : ~Crossed(y)
        /\ rvb.breakEvenYear # 0 =>
               /\ rvb.breakEvenYear \in 1..Len(yearly)
               /\ Crossed(rvb.breakEvenYear)
               /\ \A y \in 1..(rvb.breakEvenYear - 1) : ~Crossed(y)

C22_BuyingCostlierAgain ==
    /\ impl = "lib_rvb" /\ pc = "done"
    /\ rvb.breakEvenYear = 1
    /\ Len(yearly) = rvb.input.yearsToAnalyze /\ Len(yearly) >= 2
    /\ ~Crossed(Len(yearly))

\* C23: in every simulated year the insurance added to the cumulative buying
\* cost is the insurance input itself, once: the cost after the year is, to
\* within a cent, what a twelfth of the input paid monthly gives
C23_InsuranceOncePerYear ==
    Comparing =>
        \A y \in 1..Len(yearly) :
            Within(yearly[y].buying,
                   rvb_buying([rvb EXCEPT
                       !.input.homeInsurance = FDiv(rvb.input.homeInsurance, Twelve),
                       !.totalBuyingCost = BuyingBefore(y),
                       !.year = y]),
                   FDiv(One, Hundred))

(***************************************************************************)
(* The browser's calculation service and the saved calculations            *)
(***************************************************************************)
\* C29: calculateMortgage never rejects because the query failed: when the
\* query fails the call returns calculateMortgageLocally of the same input,
\* when it succeeds the local calculation never runs, and the result returned
\* comes from exactly one of the two paths
C29_LocalFallback ==
    remote.settled \in {"fulfilled", "rejected"} =>
        /\ remote.settled = "fulfilled"
        /\ remote.from \in {"remote", "local"}
        /\ remote.outcome = "data" =>
               /\ remote.from = "remote" /\ remote.ran = <<"query">>
               /\ remote.result =
                      calculateMortgage_result(remote.data, remote.answer, Today(now))
        /\ remote.outcome # "data" =>
               /\ remote.from = "local" /\ remote.ran = <<"query", "local">>
               /\ remote.result = calculateMortgageLocally(remote.data, Today(now))

C29_FellBack ==
    /\ pc = "done" /\ impl = "svc_mortgage"
    /\ remote.outcome = "rejected" /\ remote.settled = "fulfilled"
    /\ Len(remote.result.amortizationSchedule) = 12
    /\ FGt(remote.result.monthlyPayment, Zero)

\* C30: the stored history never holds more than 10 entries and is ordered
\* newest first; a save whose POST fails leaves it as it was; isCalculating is
\* false whenever no save is running
C30_SavedHistory ==
    /\ [](/\ Len(ui.mortgageCalculations) <= 10
          /\ \A i, j \in 1..Len(ui.mortgageCalculations) :
                 i < j => ui.mortgageCalculations[i].id > ui.mortgageCalculations[j].id
          /\ ui.at = "idle" => ~ui.isCalculating)
    /\ [][(ui.at = "post" /\ ui'.at = "idle" /\ ui'.alert = "error")
              => ui'.mortgageCalculations = ui.mortgageCalculations]_vars

C30_FailedAfterEleven ==
    /\ ui.at = "idle" /\ ui.alert = "error" /\ ~ui.isCalculating
    /\ ui.time >= 11
    /\ Len(ui.mortgageCalculations) = 10
    /\ ui.mortgageCalculations[1].id = ui.time
====
